---- MODULE Spec2Model ----
(***************************************************************************)
(* Model of analysis.py: a Panel dashboard over a table of billionaire     *)
(* records.  The script loads the table, derives columns, builds seven     *)
(* reactive render functions bound to widgets, and serves one template.    *)
(***************************************************************************)
EXTENDS Integers, Sequences, FiniteSets, TLC

(* ------------------------------ bounds -------------------------------- *)
\* longest table drawn for the direct-call specification
MaxRows == 4
\* control changes the browser sessions emit in one run
MaxEvents == 2
\* events waiting in the server's event loop
MaxQueue == 2

\* the browser sessions connected to the one served template
Sessions == {"s1", "s2"}

(* --------------------------- missing values --------------------------- *)
\* A nullable number is <<>> (NaN) or <<n>>.
NaN == <<>>
Num(n) == <<n>>

\* pandas comparison operators: any comparison with NaN is False
Lt(x, n) == x # <<>> /\ x[1] < n
Ge(x, n) == x # <<>> /\ x[1] >= n
Le(x, n) == x # <<>> /\ x[1] <= n

\* 2023 - df['birthYear'] : arithmetic propagates NaN
RSub(n, x) == IF x = <<>> THEN <<>> ELSE <<n - x[1]>>

(* ------------------------- the Excel workbook ------------------------- *)
\* The rows a workbook may hold: raw columns only; finalWorth is the
\* currency-formatted text, one character per element.
RawRows ==
  { [category |-> "Technology", industries |-> "Technology", country |-> "A",
     birthYear |-> Num(1990), finalWorth |-> <<"$", "2">>,
     cpi_change_country |-> 1, tax_revenue_country_country |-> 10],
    [category |-> "Finance", industries |-> "Finance", country |-> "A",
     birthYear |-> Num(1960), finalWorth |-> <<"$", "1", ",", "0", "0", "0">>,
     cpi_change_country |-> 1, tax_revenue_country_country |-> 10],
    [category |-> "Finance", industries |-> "Finance", country |-> "B",
     birthYear |-> Num(1970), finalWorth |-> <<"$", "4">>,
     cpi_change_country |-> 2, tax_revenue_country_country |-> 20],
    [category |-> "Finance", industries |-> "Finance", country |-> "B",
     birthYear |-> Num(1983), finalWorth |-> <<"7">>,
     cpi_change_country |-> 2, tax_revenue_country_country |-> 20],
    [category |-> "Technology", industries |-> "Technology", country |-> "A",
     birthYear |-> NaN, finalWorth |-> <<"$", "3">>,
     cpi_change_country |-> 1, tax_revenue_country_country |-> 10],
    [category |-> "Finance", industries |-> "Finance", country |-> "A",
     birthYear |-> Num(1922), finalWorth |-> <<"$", "5">>,
     cpi_change_country |-> 1, tax_revenue_country_country |-> 10] }

\* every workbook of at most MaxRows rows
Workbooks == UNION { [1..n -> RawRows] : n \in 0..MaxRows }

\* the workbooks the served process is started on
ServedWorkbooks ==
  LET r(c, i, y, w) ==
        [category |-> i, industries |-> i, country |-> c, birthYear |-> y,
         finalWorth |-> w,
         cpi_change_country |-> IF c = "A" THEN 1 ELSE 2,
         tax_revenue_country_country |-> IF c = "A" THEN 10 ELSE 20]
  IN { << r("A", "Technology", Num(1990), <<"$", "2">>),
          r("A", "Finance", Num(1960), <<"$", "1", ",", "0", "0", "0">>),
          r("B", "Finance", Num(1970), <<"$", "4">>),
          r("B", "Finance", Num(1983), <<"7">>),
          r("A", "Technology", NaN, <<"$", "3">>),
          r("A", "Finance", Num(1922), <<"$", "5">>) >>,
       << r("A", "Finance", Num(1960), <<"$", "6">>),
          r("B", "Technology", Num(1970), <<"$", "4">>),
          r("A", "Technology", Num(1990), <<"2">>) >> }

\* the values of the label columns, in lexicographic order (the order a
\* sorted groupby lists its keys in)
Categories == <<"Finance", "Technology">>
Industries == <<"Finance", "Technology">>
AgeGroups == <<"Older (>=40)", "Young (<40)">>

(* ------------------------------ loading ------------------------------- *)
\* pd.read_excel: the rows in file order, each with its index label
ReadExcel(book) ==
  [i \in 1..Len(book) |->
     [idx |-> i - 1,
      category |-> book[i].category, industries |-> book[i].industries,
      country |-> book[i].country, birthYear |-> book[i].birthYear,
      finalWorth |-> book[i].finalWorth,
      cpi_change_country |-> book[i].cpi_change_country,
      tax_revenue_country_country |-> book[i].tax_revenue_country_country]]

\* .replace({'\$': '', ',': ''}, regex=True): drop every '$' and ','
StripCurrency(s) ==
  LET keep(c) == c \notin {"$", ","} IN SelectSeq(s, keep)

DigitValue ==
  [c \in {"0", "1", "2", "3", "4", "5", "6", "7", "8", "9"} |->
     CASE c = "0" -> 0 [] c = "1" -> 1 [] c = "2" -> 2 [] c = "3" -> 3
       [] c = "4" -> 4 [] c = "5" -> 5 [] c = "6" -> 6 [] c = "7" -> 7
       [] c = "8" -> 8 [] c = "9" -> 9]

\* .astype(float) on a string of digits
RECURSIVE AsFloat(_)
AsFloat(s) ==
  IF s = <<>> THEN 0
  ELSE 10 * AsFloat(SubSeq(s, 1, Len(s) - 1)) + DigitValue[s[Len(s)]]

ParseWorth(s) == AsFloat(StripCurrency(s))

\* df['age'] = 2023 - df['birthYear']
AgeOf(birthYear) == RSub(2023, birthYear)

\* df['age'] < 40
\* (variant: the cutoff age itself counted as young)
IsYoungInclusive(age) == Le(age, 40)
IsYoung(age) == Lt(age, 40)

young_age_cutoff == 40

\* lambda x: 'Young (<40)' if x < young_age_cutoff else 'Older (>=40)'
AgeGroupOf(age) ==
  IF Lt(age, young_age_cutoff) THEN "Young (<40)" ELSE "Older (>=40)"

\* cell In[5]: finalWorth parsed, age and is_young added
DeriveColumns(d) ==
  [i \in 1..Len(d) |->
     [idx |-> d[i].idx,
      category |-> d[i].category, industries |-> d[i].industries,
      country |-> d[i].country, birthYear |-> d[i].birthYear,
      finalWorth |-> ParseWorth(d[i].finalWorth),
      cpi_change_country |-> d[i].cpi_change_country,
      tax_revenue_country_country |-> d[i].tax_revenue_country_country,
      age |-> AgeOf(d[i].birthYear),
      is_young |-> IsYoung(AgeOf(d[i].birthYear))]]

\* cell In[11]: df['age_group'] = df['age'].apply(...)
AddAgeGroup(d) ==
  [i \in 1..Len(d) |->
     [idx |-> d[i].idx,
      category |-> d[i].category, industries |-> d[i].industries,
      country |-> d[i].country, birthYear |-> d[i].birthYear,
      finalWorth |-> d[i].finalWorth,
      cpi_change_country |-> d[i].cpi_change_country,
      tax_revenue_country_country |-> d[i].tax_revenue_country_country,
      age |-> d[i].age, is_young |-> d[i].is_young,
      age_group |-> AgeGroupOf(d[i].age)]]

\* the table as the script leaves it before serving
LoadedTable(book) == AddAgeGroup(DeriveColumns(ReadExcel(book)))

(* --------------------------- table helpers ---------------------------- *)
RECURSIVE SumWorth(_)
SumWorth(d) == IF d = <<>> THEN 0 ELSE Head(d).finalWorth + SumWorth(Tail(d))

\* the distinct values of a column in order of first appearance
RECURSIVE Unique(_)
Unique(col) ==
  IF col = <<>> THEN <<>>
  ELSE LET rest == Unique(SubSeq(col, 1, Len(col) - 1))
           x == col[Len(col)]
       IN IF \E i \in 1..Len(rest) : rest[i] = x THEN rest ELSE Append(rest, x)

\* stable insertion of e into a sequence held in descending count
RECURSIVE InsertDesc(_, _)
InsertDesc(s, e) ==
  IF s = <<>> THEN <<e>>
  ELSE IF Head(s).count >= e.count
       THEN <<Head(s)>> \o InsertDesc(Tail(s), e)
       ELSE <<e>> \o s

RECURSIVE SortDesc(_)
SortDesc(s) ==
  IF s = <<>> THEN <<>>
  ELSE InsertDesc(SortDesc(SubSeq(s, 1, Len(s) - 1)), s[Len(s)])

\* Series.value_counts(): one entry per distinct value, descending count
ValueCounts(col) ==
  LET vals == Unique(col)
      n(v) == Len(SelectSeq(col, LAMBDA x : x = v))
  IN SortDesc([i \in 1..Len(vals) |-> [key |-> vals[i], count |-> n(vals[i])]])

\* a column of a table: df['country']
CountryColumn(d) == [i \in 1..Len(d) |-> d[i].country]

(* -------------------------- render functions -------------------------- *)
\* update_histogram(selected_category, show_all)
update_histogram(d, selected_category, show_all) ==
  LET InCategory(r) == r.category = selected_category
      shown == IF show_all THEN d ELSE SelectSeq(d, InCategory)
  IN [plot |-> "hist",
      title |-> <<"Distribution of Billionaire Wealth",
                  IF show_all THEN "All Industries" ELSE selected_category>>,
      data |-> [i \in 1..Len(shown) |-> shown[i].finalWorth]]

\* df.groupby('category')['finalWorth'].mean().reset_index(): one row per
\* category present, in sorted key order; a mean is kept as sum over count
\* (variant: the means taken over the selected category's rows only)
AvgByCategoryOfSelection(d, selected_category) ==
  LET InCategory(r) == r.category = selected_category
      sel == SelectSeq(d, InCategory)
      Grp(c) == LET P(r) == r.category = c IN SelectSeq(sel, P)
      present == SelectSeq(Categories, LAMBDA c : Grp(c) # <<>>)
  IN [i \in 1..Len(present) |->
        [category |-> present[i],
         finalWorth |-> [sum |-> SumWorth(Grp(present[i])),
                         count |-> Len(Grp(present[i]))]]]
AvgByCategory(d, selected_category) ==
  LET Grp(c) == LET P(r) == r.category = c IN SelectSeq(d, P)
      present == SelectSeq(Categories, LAMBDA c : Grp(c) # <<>>)
  IN [i \in 1..Len(present) |->
        [category |-> present[i],
         finalWorth |-> [sum |-> SumWorth(Grp(present[i])),
                         count |-> Len(Grp(present[i]))]]]

\* update_avg_wealth(selected_category)
update_avg_wealth(d, selected_category) ==
  [plot |-> "bar", title |-> <<"Average Wealth by Category">>,
   data |-> AvgByCategory(d, selected_category)]

\* the counts update_country_plot draws: value_counts().reset_index() with
\* columns ['country', 'count']
\* (variant: the category filter applied even when show_all is set)
CountryCountsIgnoringShowAll(d, selected_category, show_all) ==
  LET InCategory(r) == r.category = selected_category
      vc == ValueCounts(CountryColumn(SelectSeq(d, InCategory)))
  IN [i \in 1..Len(vc) |-> [country |-> vc[i].key, count |-> vc[i].count]]
CountryCounts(d, selected_category, show_all) ==
  LET InCategory(r) == r.category = selected_category
      vc == IF show_all THEN ValueCounts(CountryColumn(d))
            ELSE ValueCounts(CountryColumn(SelectSeq(d, InCategory)))
  IN [i \in 1..Len(vc) |-> [country |-> vc[i].key, count |-> vc[i].count]]

\* update_country_plot(selected_category, show_all)
update_country_plot(d, selected_category, show_all) ==
  [plot |-> "barh",
   title |-> <<"Number of Billionaires by Country",
               IF ~show_all THEN selected_category ELSE "All Industries">>,
   data |-> CountryCounts(d, selected_category, show_all)]

\* df[(df['age'] >= age_range[0]) & (df['age'] <= age_range[1])]
\* (variant: the upper end of the range excluded)
InAgeRangeExclusive(d, age_range) ==
  LET P(r) == Ge(r.age, age_range[1]) /\ Lt(r.age, age_range[2])
  IN SelectSeq(d, P)
InAgeRange(d, age_range) ==
  LET P(r) == Ge(r.age, age_range[1]) /\ Le(r.age, age_range[2])
  IN SelectSeq(d, P)

\* update_age_wealth_scatter(age_range)
update_age_wealth_scatter(d, age_range) ==
  LET shown == InAgeRange(d, age_range)
  IN [plot |-> "scatter", title |-> <<"Age vs. Wealth">>,
      data |-> [i \in 1..Len(shown) |->
                  [idx |-> shown[i].idx, age |-> shown[i].age,
                   finalWorth |-> shown[i].finalWorth]]]

\* update_young_billionaires: groupby(['industries', 'age_group']).size()
\* .unstack(fill_value=0).reset_index().melt(...): one row per age group
\* column and industry row of the unstacked frame, column by column
\* (variant: pairs without a row dropped instead of filled with 0)
AgeDistributionNoFill(d, age_range) ==
  LET f == InAgeRange(d, age_range)
      n(ind, g) == LET P(r) == r.industries = ind /\ r.age_group = g
                   IN Len(SelectSeq(f, P))
      inds == SelectSeq(Industries, LAMBDA c : \E i \in 1..Len(f) : f[i].industries = c)
      grps == SelectSeq(AgeGroups, LAMBDA g : \E i \in 1..Len(f) : f[i].age_group = g)
      all == [k \in 1..(Len(grps) * Len(inds)) |->
               LET g == grps[((k - 1) \div Len(inds)) + 1]
                   ind == inds[((k - 1) % Len(inds)) + 1]
               IN [industries |-> ind, age_group |-> g, count |-> n(ind, g)]]
  IN SelectSeq(all, LAMBDA e : e.count > 0)
AgeDistribution(d, age_range) ==
  LET f == InAgeRange(d, age_range)
      n(ind, g) == LET P(r) == r.industries = ind /\ r.age_group = g
                   IN Len(SelectSeq(f, P))
      inds == SelectSeq(Industries, LAMBDA c : \E i \in 1..Len(f) : f[i].industries = c)
      grps == SelectSeq(AgeGroups, LAMBDA g : \E i \in 1..Len(f) : f[i].age_group = g)
  IN [k \in 1..(Len(grps) * Len(inds)) |->
        LET g == grps[((k - 1) \div Len(inds)) + 1]
            ind == inds[((k - 1) % Len(inds)) + 1]
        IN [industries |-> ind, age_group |-> g, count |-> n(ind, g)]]

\* update_young_billionaires(age_range)
update_young_billionaires(d, age_range) ==
  [plot |-> "bar",
   title |-> <<"Proportion of Young vs. Older Billionaires by Industry">>,
   data |-> AgeDistribution(d, age_range)]

\* df[(df['birthYear'] >= year_range[0]) & (df['birthYear'] <= year_range[1])]
InYearRange(d, year_range) ==
  LET P(r) == Ge(r.birthYear, year_range[1]) /\ Le(r.birthYear, year_range[2])
  IN SelectSeq(d, P)

\* filtered_df['birthYear'].value_counts().sort_index()
YearCounts(f, year_range) ==
  LET n(y) == LET P(r) == r.birthYear = Num(y) IN Len(SelectSeq(f, P))
      span == [i \in 1..(year_range[2] - year_range[1] + 1) |-> year_range[1] + i - 1]
      years == SelectSeq(span, LAMBDA y : n(y) > 0)
  IN [i \in 1..Len(years) |-> [year |-> years[i], count |-> n(years[i])]]

\* the figure update_billionaires_over_time draws into the current figure
OverTimeFigure(d, year_range, selected_industry) ==
  LET f0 == InYearRange(d, year_range)
      OfIndustry(r) == r.industries = selected_industry
      f == IF selected_industry # "All Industries" THEN SelectSeq(f0, OfIndustry) ELSE f0
  IN [title |-> <<"Number of Billionaires Over Time in", selected_industry>>,
      points |-> YearCounts(f, year_range),
      xticks |-> [i \in 1..(((year_range[2] - year_range[1]) \div 5) + 1) |->
                    year_range[1] + 5 * (i - 1)]]

\* update_scatter_plot(year_range, selected_indicator)
update_scatter_plot(d, year_range, selected_indicator) ==
  LET f == InYearRange(d, year_range)
  IN IF selected_indicator = "CPI Change"
     THEN [plot |-> "scatter", title |-> <<"Net Worth vs CPI Change">>,
           data |-> [i \in 1..Len(f) |->
                       [x |-> f[i].cpi_change_country, y |-> f[i].finalWorth]]]
     ELSE [plot |-> "scatter", title |-> <<"Net Worth vs Tax Revenue">>,
           data |-> [i \in 1..Len(f) |->
                       [x |-> f[i].tax_revenue_country_country, y |-> f[i].finalWorth]]]

(* ------------------------------- state -------------------------------- *)
VARIABLES
  pc,         \* the cell of the script about to run, then "serving"
  xlsx,       \* the rows of Data_cleaned.xlsx
  df,         \* the process-wide table
  globals,    \* module-level widget names -> the widget instance each names
  widgets,    \* widget instance -> its current value
  options,    \* widget instance -> the values a browser can set it to
  bound,      \* render function -> the widget instances pn.depends captured
  placed,     \* the widget instances laid out in a section of the template
  display,    \* render function -> the output its pane shows
  figs,       \* pyplot's registry of open figures, oldest first
  queue,      \* control-change events waiting in the server's event loop
  handling,   \* the event dequeued last
  pending,    \* render functions the event being handled has yet to call
  running,    \* render invocations entered and not yet returned
  emitted,    \* number of events the sessions have emitted
  call        \* a direct call of a render function: its arguments and result

vars == <<pc, xlsx, df, globals, widgets, options, bound, placed, display,
          figs, queue, handling, pending, running, emitted, call>>

ui == <<globals, widgets, options, bound, placed>>
loop == <<queue, handling, pending, running, emitted>>

Empty == [x \in {} |-> x]

\* the render functions in the order the script defines them
RenderFunctions ==
  <<"update_histogram", "update_avg_wealth", "update_country_plot",
    "update_age_wealth_scatter", "update_young_billionaires",
    "update_billionaires_over_time", "update_scatter_plot">>

\* the module-level names each @pn.depends(...) decorator reads
DepNames(f) ==
  CASE f = "update_histogram" -> <<"category_select", "show_all_industries">>
    [] f = "update_avg_wealth" -> <<"category_select">>
    [] f = "update_country_plot" -> <<"category_select", "show_all_industries">>
    [] f = "update_age_wealth_scatter" -> <<"age_slider">>
    [] f = "update_young_billionaires" -> <<"age_slider">>
    [] f = "update_billionaires_over_time" -> <<"year_slider", "industry_select">>
    [] f = "update_scatter_plot" -> <<"year_slider", "indicator_select">>

\* @pn.depends(name.param.value, ...): the parameters of the instances the
\* names denote in namespace g
Depends(f, g) == [i \in 1..Len(DepNames(f)) |-> g[DepNames(f)[i]]]

\* the widget instances whose value a render function is called with
\* (variant: the names looked up again in the namespace as it is now)
BoundWidgetsByName(f) == Depends(f, globals)
BoundWidgets(f) == bound[f]

\* the render functions watching widget w, in definition order
\* (variant: only the first dependency of a function is watched)
WatchersOfFirstDependency(w) ==
  SelectSeq(RenderFunctions,
            LAMBDA f : f \in DOMAIN bound /\ BoundWidgets(f)[1] = w)
Watchers(w) ==
  SelectSeq(RenderFunctions,
            LAMBDA f : f \in DOMAIN bound
                       /\ \E i \in 1..Len(BoundWidgets(f)) : BoundWidgets(f)[i] = w)

\* the current values of the widgets f is bound to
ArgsOf(f, w) == [i \in 1..Len(BoundWidgets(f)) |-> w[BoundWidgets(f)[i]]]

\* the chart a render function returns for table d and arguments a; the
\* matplotlib view returns a pane on plt.gcf(), the figure created last
Render(f, d, a, reg) ==
  CASE f = "update_histogram" -> update_histogram(d, a[1], a[2])
    [] f = "update_avg_wealth" -> update_avg_wealth(d, a[1])
    [] f = "update_country_plot" -> update_country_plot(d, a[1], a[2])
    [] f = "update_age_wealth_scatter" -> update_age_wealth_scatter(d, a[1])
    [] f = "update_young_billionaires" -> update_young_billionaires(d, a[1])
    [] f = "update_billionaires_over_time" -> [plot |-> "Matplotlib", figure |-> reg[Len(reg)]]
    [] f = "update_scatter_plot" -> update_scatter_plot(d, a[1], a[2])

\* pyplot's registry after f has run: update_billionaires_over_time calls
\* plt.figure(...) and draws into it; no function closes a figure
FigsAfter(f, d, a, reg) ==
  IF f = "update_billionaires_over_time"
  THEN Append(reg, OverTimeFigure(d, a[1], a[2]))
  ELSE reg

\* the table after a render function has run: no render function assigns
\* to df or to one of its columns
\* (variant: the age-group view filters df itself)
TableAfterInPlaceFilter(f, d, a) ==
  IF f = "update_young_billionaires" THEN InAgeRange(d, a[1]) ELSE d
TableAfter(f, d, a) == d

\* df['category'].unique().tolist()
UniqueCategories(d) ==
  LET u == Unique([i \in 1..Len(d) |-> d[i].category])
  IN {u[i] : i \in 1..Len(u)}

\* ['All Industries'] + df['industries'].unique().tolist()
IndustryOptions(d) ==
  LET u == Unique([i \in 1..Len(d) |-> d[i].industries])
  IN {"All Industries"} \cup {u[i] : i \in 1..Len(u)}

\* the positions a browser drags a range slider to
AgeRanges == {<<0, 40>>, <<41, 100>>}
YearRanges12 == {<<1920, 2005>>, <<1960, 1990>>}
YearRanges13 == {<<1920, 2023>>, <<1960, 1990>>}

(* ------------------------------ start-up ------------------------------ *)
Init ==
  /\ pc = "In2"
  /\ xlsx \in ServedWorkbooks
  /\ df = <<>>
  /\ globals = Empty /\ widgets = Empty /\ options = Empty /\ bound = Empty
  /\ placed = {} /\ display = Empty /\ figs = <<>>
  /\ queue = <<>> /\ handling = [seq |-> 0] /\ pending = <<>> /\ running = <<>>
  /\ emitted = 0
  /\ call = [fn |-> "none"]

\* In[2]: df = pd.read_excel('Data_cleaned.xlsx')
In2 ==
  /\ pc = "In2"
  /\ df' = ReadExcel(xlsx)
  /\ pc' = "In5"
  /\ UNCHANGED <<xlsx, ui, display, figs, loop, call>>

\* In[5]: finalWorth, age, is_young
In5 ==
  /\ pc = "In5"
  /\ df' = DeriveColumns(df)
  /\ pc' = "In7"
  /\ UNCHANGED <<xlsx, ui, display, figs, loop, call>>

\* A cell that creates widgets (new: instance -> initial value, opts: instance
\* -> allowed values), binds names to them (g: the namespace afterwards),
\* decorates f and lays out pn.Column(<the widgets named shown>, f), which
\* renders f once; d is the table the cell runs on.
BuildSection(f, g, new, opts, shown, d) ==
  LET w == new @@ widgets
      b == Depends(f, g)
      a == [i \in 1..Len(b) |-> w[b[i]]]
      reg == FigsAfter(f, d, a, figs)
  IN /\ globals' = g
     /\ widgets' = w
     /\ options' = opts @@ options
     /\ bound' = (f :> b) @@ bound
     /\ placed' = placed \cup {g[shown[i]] : i \in 1..Len(shown)}
     /\ figs' = reg
     /\ display' = (f :> Render(f, d, a, reg)) @@ display
     /\ df' = TableAfter(f, d, a)

\* In[7]: category_select, show_all_industries, update_histogram
In7 ==
  /\ pc = "In7"
  /\ BuildSection("update_histogram",
       ("category_select" :> "Select@80")
         @@ ("show_all_industries" :> "Checkbox@81") @@ globals,
       ("Select@80" :> "Technology") @@ ("Checkbox@81" :> FALSE),
       ("Select@80" :> UniqueCategories(df)) @@ ("Checkbox@81" :> BOOLEAN),
       <<"category_select", "show_all_industries">>, df)
  /\ pc' = "In8"
  /\ UNCHANGED <<xlsx, loop, call>>

\* In[8]: category_select again, update_avg_wealth; the column holds the
\* function alone
In8 ==
  /\ pc = "In8"
  /\ BuildSection("update_avg_wealth",
       ("category_select" :> "Select@105") @@ globals,
       ("Select@105" :> "Technology"),
       ("Select@105" :> UniqueCategories(df)),
       <<>>, df)
  /\ pc' = "In9"
  /\ UNCHANGED <<xlsx, loop, call>>

\* In[9]: category_select and show_all_industries again, update_country_plot
In9 ==
  /\ pc = "In9"
  /\ BuildSection("update_country_plot",
       ("category_select" :> "Select@124")
         @@ ("show_all_industries" :> "Checkbox@125") @@ globals,
       ("Select@124" :> "Technology") @@ ("Checkbox@125" :> FALSE),
       ("Select@124" :> UniqueCategories(df)) @@ ("Checkbox@125" :> BOOLEAN),
       <<"category_select", "show_all_industries">>, df)
  /\ pc' = "In10"
  /\ UNCHANGED <<xlsx, loop, call>>

\* In[10]: age_slider, update_age_wealth_scatter
In10 ==
  /\ pc = "In10"
  /\ BuildSection("update_age_wealth_scatter",
       ("age_slider" :> "RangeSlider@166") @@ globals,
       ("RangeSlider@166" :> <<0, 40>>),
       ("RangeSlider@166" :> AgeRanges),
       <<"age_slider">>, df)
  /\ pc' = "In11"
  /\ UNCHANGED <<xlsx, loop, call>>

\* In[11]: df['age_group'], age_slider again, update_young_billionaires
In11 ==
  /\ pc = "In11"
  /\ BuildSection("update_young_billionaires",
       ("age_slider" :> "RangeSlider@193") @@ globals,
       ("RangeSlider@193" :> <<0, 40>>),
       ("RangeSlider@193" :> AgeRanges),
       <<"age_slider">>, AddAgeGroup(df))
  /\ pc' = "In12"
  /\ UNCHANGED <<xlsx, loop, call>>

\* In[12]: year_slider, industry_select, update_billionaires_over_time
In12 ==
  /\ pc = "In12"
  /\ BuildSection("update_billionaires_over_time",
       ("year_slider" :> "RangeSlider@224")
         @@ ("industry_select" :> "Select@228") @@ globals,
       ("RangeSlider@224" :> <<1920, 2005>>) @@ ("Select@228" :> "All Industries"),
       ("RangeSlider@224" :> YearRanges12) @@ ("Select@228" :> IndustryOptions(df)),
       <<"year_slider", "industry_select">>, df)
  /\ pc' = "In13"
  /\ UNCHANGED <<xlsx, loop, call>>

\* In[13]: year_slider again, indicator_select, update_scatter_plot
In13 ==
  /\ pc = "In13"
  /\ BuildSection("update_scatter_plot",
       ("year_slider" :> "RangeSlider@274")
         @@ ("indicator_select" :> "Select@275") @@ globals,
       ("RangeSlider@274" :> <<1920, 2023>>) @@ ("Select@275" :> "CPI Change"),
       ("RangeSlider@274" :> YearRanges13)
         @@ ("Select@275" :> {"CPI Change", "Tax Revenue"}),
       <<"year_slider", "indicator_select">>, df)
  /\ pc' = "In14"
  /\ UNCHANGED <<xlsx, loop, call>>

\* In[14]: the template is assembled and pn.serve(template) starts the loop
Serve ==
  /\ pc = "In14"
  /\ pc' = "serving"
  /\ UNCHANGED <<xlsx, df, ui, display, figs, loop, call>>

(* ----------------------------- serve loop ----------------------------- *)
\* the server runs callbacks on one thread: an event is taken up only when
\* nothing is being handled
\* (variant: events taken up while a handler is still running)
NoLoopGuard == TRUE
LoopIdle == pending = <<>> /\ running = <<>>

\* a browser session moves a control it is shown off its current value
Emit(s, w, v) ==
  /\ pc = "serving"
  /\ emitted < MaxEvents
  /\ Len(queue) < MaxQueue
  /\ w \in placed
  /\ v \in options[w]
  /\ v # widgets[w]
  /\ queue' = Append(queue, [session |-> s, widget |-> w, value |-> v,
                             seq |-> emitted + 1])
  /\ emitted' = emitted + 1
  /\ UNCHANGED <<pc, xlsx, df, ui, display, figs, handling, pending, running, call>>

\* the loop takes the oldest event: the widget's value is set, and when it
\* changed the functions watching it are to be called
Dispatch ==
  /\ pc = "serving"
  /\ queue # <<>>
  /\ LoopIdle
  /\ LET e == Head(queue)
     IN /\ queue' = Tail(queue)
        /\ handling' = e
        /\ widgets' = [widgets EXCEPT ![e.widget] = e.value]
        /\ pending' = IF widgets[e.widget] # e.value
                      THEN pending \o Watchers(e.widget)
                      ELSE pending
  /\ UNCHANGED <<pc, xlsx, df, globals, options, bound, placed, display, figs,
                 running, emitted, call>>

\* the next watching function is entered with the current values
Invoke ==
  /\ pc = "serving"
  /\ pending # <<>>
  /\ running = <<>>
  /\ running' = Append(running, [fn |-> Head(pending),
                                 args |-> ArgsOf(Head(pending), widgets),
                                 event |-> handling.seq])
  /\ pending' = Tail(pending)
  /\ UNCHANGED <<pc, xlsx, df, ui, display, figs, queue, handling, emitted, call>>

\* a running function returns and its pane shows the new output
Return ==
  /\ pc = "serving"
  /\ \E i \in 1..Len(running) :
       LET r == running[i]
           reg == FigsAfter(r.fn, df, r.args, figs)
       IN /\ figs' = reg
          /\ display' = [display EXCEPT ![r.fn] = Render(r.fn, df, r.args, reg)]
          /\ df' = TableAfter(r.fn, df, r.args)
          /\ running' = SubSeq(running, 1, i - 1) \o SubSeq(running, i + 1, Len(running))
  /\ UNCHANGED <<pc, xlsx, ui, queue, handling, pending, emitted, call>>

Next ==
  \/ In2 \/ In5 \/ In7 \/ In8 \/ In9 \/ In10 \/ In11 \/ In12 \/ In13 \/ Serve
  \/ \E s \in Sessions : \E w \in placed : \E v \in options[w] : Emit(s, w, v)
  \/ Dispatch \/ Invoke \/ Return

Spec == Init /\ [][Next]_vars

(* ---------------------------- direct calls ---------------------------- *)
\* The render functions applied directly to a loaded table, for every
\* workbook of at most MaxRows rows and every argument tried.
DirectAgeRanges == {<<0, 40>>, <<40, 100>>, <<41, 100>>, <<0, 100>>}
DirectCategories == {"Finance", "Technology"}

InitDirect ==
  /\ pc = "direct"
  /\ xlsx \in Workbooks
  /\ df = LoadedTable(xlsx)
  /\ globals = Empty /\ widgets = Empty /\ options = Empty /\ bound = Empty
  /\ placed = {} /\ display = Empty /\ figs = <<>>
  /\ queue = <<>> /\ handling = [seq |-> 0] /\ pending = <<>> /\ running = <<>>
  /\ emitted = 0
  /\ call = [fn |-> "none"]

\* one call per run, on the table as loaded
Returned(f, a) ==
  /\ pc = "direct"
  /\ call.fn = "none"
  /\ call' = [fn |-> f, args |-> a, out |-> Render(f, df, a, figs)]
  /\ UNCHANGED <<pc, xlsx, df, ui, display, figs, loop>>

CallAvgWealth(c) == Returned("update_avg_wealth", <<c>>)
CallCountryPlot(c, all) == Returned("update_country_plot", <<c, all>>)
CallAgeWealthScatter(r) == Returned("update_age_wealth_scatter", <<r>>)
CallYoungBillionaires(r) == Returned("update_young_billionaires", <<r>>)

NextDirect ==
  \/ \E c \in DirectCategories : CallAvgWealth(c)
  \/ \E c \in DirectCategories : \E all \in BOOLEAN : CallCountryPlot(c, all)
  \/ \E r \in DirectAgeRanges : CallAgeWealthScatter(r)
  \/ \E r \in DirectAgeRanges : CallYoungBillionaires(r)

SpecDirect == InitDirect /\ [][NextDirect]_vars

(* ======================= properties of the views ====================== *)
RowsOf(d) == 1..Len(d)

RECURSIVE WorthOver(_, _)
WorthOver(d, S) ==
  IF S = {} THEN 0
  ELSE LET i == CHOOSE j \in S : TRUE
       IN d[i].finalWorth + WorthOver(d, S \ {i})

AgeWithin(r, lo, hi) == r.age # <<>> /\ lo <= r.age[1] /\ r.age[1] <= hi

\* C5: update_avg_wealth returns, whatever category is selected, one entry
\* per category of the whole table holding the mean (sum over count) of
\* finalWorth over all rows of that category.
C5_AvgWealthIgnoresControls ==
  call.fn = "update_avg_wealth" =>
    LET out == call.out.data
        InCat(c) == {i \in RowsOf(df) : df[i].category = c}
    IN /\ \A k \in 1..Len(out) :
            /\ InCat(out[k].category) # {}
            /\ out[k].finalWorth.count = Cardinality(InCat(out[k].category))
            /\ out[k].finalWorth.sum = WorthOver(df, InCat(out[k].category))
       /\ \A i \in RowsOf(df) :
            Cardinality({k \in 1..Len(out) : out[k].category = df[i].category}) = 1

\* a call with a category that selects only part of a table of two categories
C5_Witness ==
  /\ call.fn = "update_avg_wealth"
  /\ call.args[1] = "Technology"
  /\ Len(call.out.data) = 2
  /\ \E i \in RowsOf(df) : df[i].category = "Finance"
  /\ \E k \in 1..2 : call.out.data[k].finalWorth.count > 1

\* C6: update_country_plot reports, with 'Show All Industries' set, for each
\* country the number of rows of the whole table with that country whatever
\* the category; without it, the number of rows with that country and the
\* selected category; countries are listed in descending count.
C6_CountryCounts ==
  call.fn = "update_country_plot" =>
    LET out == call.out.data
        cat == call.args[1]
        all == call.args[2]
        Sel == {i \in RowsOf(df) : all \/ df[i].category = cat}
        Of(c) == {i \in Sel : df[i].country = c}
    IN /\ \A k \in 1..Len(out) :
            out[k].count > 0 /\ out[k].count = Cardinality(Of(out[k].country))
       /\ \A i \in Sel :
            Cardinality({k \in 1..Len(out) : out[k].country = df[i].country}) = 1
       /\ \A j, k \in 1..Len(out) : j < k => out[j].count >= out[k].count

\* countries {A: 3, B: 1} with show-all set and a category that holds only
\* some of the rows
C6_Witness ==
  /\ call.fn = "update_country_plot"
  /\ call.args[2] = TRUE
  /\ \E i \in RowsOf(df) : df[i].category # call.args[1]
  /\ call.out.data = <<[country |-> "A", count |-> 3], [country |-> "B", count |-> 1]>>

\* C7: update_age_wealth_scatter plots exactly the rows with lo <= age <= hi,
\* each once, and never a row with a missing age; the rows selected by
\* (0, 40) and (41, 100) are disjoint and together are the rows with
\* 0 <= age <= 100.
C7_AgeRangeInclusive ==
  call.fn = "update_age_wealth_scatter" =>
    LET out == call.out.data
        lo == call.args[1][1]
        hi == call.args[1][2]
        Plotted(o) == {o[k].idx : k \in 1..Len(o)}
        other == update_age_wealth_scatter(df, <<41, 100>>).data
    IN /\ \A i \in RowsOf(df) :
            Cardinality({k \in 1..Len(out) : out[k].idx = df[i].idx})
              = IF AgeWithin(df[i], lo, hi) THEN 1 ELSE 0
       /\ \A k \in 1..Len(out) : out[k].age # <<>>
       /\ call.args[1] = <<0, 40>> =>
            /\ Plotted(out) \cap Plotted(other) = {}
            /\ Plotted(out) \cup Plotted(other)
                 = {df[i].idx : i \in {j \in RowsOf(df) : AgeWithin(df[j], 0, 100)}}

\* range (0, 40) on a table with a row aged exactly 40, a row with no age
\* and a row aged over 40
C7_Witness ==
  /\ call.fn = "update_age_wealth_scatter"
  /\ call.args[1] = <<0, 40>>
  /\ \E i \in RowsOf(df) : df[i].age = <<40>>
  /\ \E i \in RowsOf(df) : df[i].age = <<>>
  /\ \E i \in RowsOf(df) : df[i].age = <<63>>
  /\ \E k \in 1..Len(call.out.data) : call.out.data[k].age = <<40>>

\* C9: update_young_billionaires reports for each (industry, age_group) pair
\* it lists the number of rows in the age range with that industry and age
\* group; it lists every pair of an industry and an age group occurring in
\* the range, with count 0 when no row has both; the counts sum to the size
\* of the range-filtered subset.  Birth years 1960, 1970, 1990 and range
\* (0, 40) give the single entry (industry of the 1990 row, 'Young (<40)', 1).
C9_AgeGroupCounts ==
  call.fn = "update_young_billionaires" =>
    LET out == call.out.data
        lo == call.args[1][1]
        hi == call.args[1][2]
        Sel == {i \in RowsOf(df) : AgeWithin(df[i], lo, hi)}
        Of(ind, g) == {i \in Sel : df[i].industries = ind /\ df[i].age_group = g}
        Listed(ind, g) ==
          {k \in 1..Len(out) : out[k].industries = ind /\ out[k].age_group = g}
        Total[k \in 0..Len(out)] == IF k = 0 THEN 0 ELSE Total[k - 1] + out[k].count
    IN /\ \A k \in 1..Len(out) :
            out[k].count = Cardinality(Of(out[k].industries, out[k].age_group))
       /\ \A i, j \in Sel :
            Cardinality(Listed(df[i].industries, df[j].age_group)) = 1
       /\ \A k \in 1..Len(out) :
            /\ \E i \in Sel : df[i].industries = out[k].industries
            /\ \E i \in Sel : df[i].age_group = out[k].age_group
       /\ Total[Len(out)] = Cardinality(Sel)
       /\ ( /\ call.args[1] = <<0, 40>>
            /\ Len(df) = 3
            /\ {df[i].birthYear : i \in RowsOf(df)} = {<<1960>>, <<1970>>, <<1990>>} )
          => \E i \in RowsOf(df) :
               /\ df[i].birthYear = <<1990>>
               /\ out = <<[industries |-> df[i].industries,
                           age_group |-> "Young (<40)", count |-> 1]>>

\* the three-record scenario, the young record alone in its industry
C9_Witness ==
  /\ call.fn = "update_young_billionaires"
  /\ call.args[1] = <<0, 40>>
  /\ Len(df) = 3
  /\ {df[i].birthYear : i \in RowsOf(df)} = {<<1960>>, <<1970>>, <<1990>>}
  /\ Len(call.out.data) = 1
  /\ call.out.data[1].count = 1
  /\ call.out.data[1].age_group = "Young (<40)"

(* ================== properties of the served dashboard ================ *)
\* the widget instances created just above each decorator, in the order of
\* the decorator's arguments
ControlsOf(f) ==
  CASE f = "update_histogram" -> <<"Select@80", "Checkbox@81">>
    [] f = "update_avg_wealth" -> <<"Select@105">>
    [] f = "update_country_plot" -> <<"Select@124", "Checkbox@125">>
    [] f = "update_age_wealth_scatter" -> <<"RangeSlider@166">>
    [] f = "update_young_billionaires" -> <<"RangeSlider@193">>
    [] f = "update_billionaires_over_time" -> <<"RangeSlider@224", "Select@228">>
    [] f = "update_scatter_plot" -> <<"RangeSlider@274", "Select@275">>

IsControlOf(w, f) == \E i \in 1..Len(ControlsOf(f)) : ControlsOf(f)[i] = w

LatestValues(f) == [i \in 1..Len(ControlsOf(f)) |-> widgets[ControlsOf(f)[i]]]

\* what f returns for the table and the current values of its controls
Fresh(f) ==
  IF f = "update_billionaires_over_time"
  THEN [plot |-> "Matplotlib",
        figure |-> OverTimeFigure(df, LatestValues(f)[1], LatestValues(f)[2])]
  ELSE Render(f, df, LatestValues(f), <<>>)

Scheduled(f) == \E k \in 1..Len(pending) : pending[k] = f
RunningLatest(f) ==
  \E k \in 1..Len(running) : running[k].fn = f /\ running[k].args = LatestValues(f)

C1_NeverStale ==
  pc = "serving" =>
    /\ \A k \in 1..Len(RenderFunctions) :
         LET f == RenderFunctions[k]
         IN display[f] = Fresh(f) \/ Scheduled(f) \/ RunningLatest(f)
    /\ \A k \in 1..Len(running) : running[k].args = LatestValues(running[k].fn)

C1_ChangeReinvokes ==
  pc = "serving" =>
    \A w \in DOMAIN widgets :
      widgets'[w] # widgets[w] =>
        \A k \in 1..Len(RenderFunctions) :
          IsControlOf(w, RenderFunctions[k]) =>
            \E j \in 1..Len(pending') : pending'[j] = RenderFunctions[k]

C2_OneAtATime ==
  pc = "serving" =>
    /\ Len(running) <= 1
    /\ \A k \in 1..Len(RenderFunctions) :
         Cardinality({i \in 1..Len(running) : running[i].fn = RenderFunctions[k]}) <= 1
    /\ \A i \in 1..Len(running) : running[i].event = handling.seq
    /\ \A i \in 1..Len(queue) : queue[i].seq = handling.seq + i
    /\ handling.seq + Len(queue) = emitted

\* a render is in progress while another session's change of the same
\* control waits
C2_Witness ==
  /\ pc = "serving"
  /\ running # <<>>
  /\ queue # <<>>
  /\ queue[1].session # handling.session
  /\ queue[1].widget = handling.widget
  /\ IsControlOf(handling.widget, running[1].fn)

C3_TableAsLoaded == pc = "serving" => df = LoadedTable(xlsx)
C3_NoWrite == pc = "serving" => df' = df

\* C3: once the serve loop has started no step changes df: it stays the
\* table the script loaded, derived columns included.
C3_TableImmutable == []C3_TableAsLoaded /\ [][C3_NoWrite]_vars

\* the age-group view has re-rendered on a filtered copy
C3_Witness ==
  /\ pc = "serving" /\ LoopIdle
  /\ handling.seq = 2
  /\ widgets["RangeSlider@193"] = <<41, 100>>
  /\ Len(display["update_young_billionaires"].data) > 0
  /\ Len(display["update_young_billionaires"].data) < Len(df)

\* a step in which a render invocation returns
C4_Returns == Len(running') < Len(running)

\* C4: an invocation that returns leaves the registry of open figures as it
\* was and shows the function of the table and the argument values.
C4_NoResidue ==
  [][C4_Returns =>
       /\ figs' = figs
       /\ \E i \in 1..Len(running) :
            display'[running[i].fn] =
              IF running[i].fn = "update_billionaires_over_time"
              THEN [plot |-> "Matplotlib",
                    figure |-> OverTimeFigure(df, running[i].args[1], running[i].args[2])]
              ELSE Render(running[i].fn, df, running[i].args, <<>>)]_vars

\* C8: for every row, age is 2023 - birthYear (missing when the birth year
\* is), is_young is age < 40 and age_group is 'Young (<40)' exactly when
\* age < 40, so the two agree; a missing age is not young and is 'Older'.
C8_DerivedColumns ==
  \A i \in RowsOf(df) :
    LET r == df[i]
        young == r.birthYear # <<>> /\ 2023 - r.birthYear[1] < 40
    IN /\ pc \notin {"In2", "In5"} =>
            /\ r.age = IF r.birthYear = <<>> THEN <<>> ELSE <<2023 - r.birthYear[1]>>
            /\ r.is_young = young
       /\ pc \notin {"In2", "In5", "In7", "In8", "In9", "In10", "In11"} =>
            /\ r.age_group = IF young THEN "Young (<40)" ELSE "Older (>=40)"
            /\ r.is_young <=> r.age_group = "Young (<40)"

\* serving a table with a row aged exactly 40, a row with no birth year and
\* a young row, after the views have re-rendered
C8_Witness ==
  /\ pc = "serving" /\ handling.seq > 0 /\ LoopIdle
  /\ \E i \in RowsOf(df) : df[i].age = <<40>> /\ df[i].age_group = "Older (>=40)"
  /\ \E i \in RowsOf(df) : df[i].age = <<>> /\ ~df[i].is_young
  /\ \E i \in RowsOf(df) : df[i].is_young

C10_Bindings ==
  pc = "serving" =>
    /\ \A k \in 1..Len(RenderFunctions) :
         bound[RenderFunctions[k]] = ControlsOf(RenderFunctions[k])
    /\ "Select@105" \notin placed
    /\ ~Scheduled("update_avg_wealth")
    /\ \A i \in 1..Len(running) : running[i].fn # "update_avg_wealth"

C10_Frame ==
  pc = "serving" =>
    /\ \A w \in DOMAIN widgets :
         widgets'[w] # widgets[w] =>
           /\ \A v \in DOMAIN widgets : v # w => widgets'[v] = widgets[v]
           /\ \A j \in 1..Len(pending') : IsControlOf(w, pending'[j])
    /\ \A f \in DOMAIN display :
         display'[f] # display[f] =>
           /\ IsControlOf(handling.widget, f)
           /\ \A g \in DOMAIN display : g # f => display'[g] = display[g]

\* C10: each render function is bound to the widget instances created for
\* its own section; a change of a control changes that control only and
\* re-invokes only its section's function, whose output alone changes; the
\* select bound to update_avg_wealth is in no section and that view is never
\* re-invoked.
C10_ViewsIsolated == []C10_Bindings /\ [][C10_Frame]_vars

\* the country view's category was changed and re-rendered while the
\* histogram view, whose select has the same name, kept value and output
C10_Witness ==
  /\ pc = "serving" /\ LoopIdle
  /\ widgets["Select@124"] = "Finance"
  /\ widgets["Select@80"] = "Technology"
  /\ widgets["Select@105"] = "Technology"
  /\ display["update_country_plot"].title[2] = "Finance"
  /\ display["update_histogram"].title[2] = "Technology"

====
